---- MODULE Spec2Model ----
(***************************************************************************)
(* Groovoo service desk (groovoo_service_desk/app.py): the ticket store,   *)
(* the request handlers that change it, and the read-only views            *)
(* (dashboard, exports) computed from it.                                  *)
(*                                                                         *)
(* Text values are sequences of one-character strings, so that substring   *)
(* search, LIKE patterns, strip() and split(',') are computed and not      *)
(* assumed.  Python's None / SQL NULL is the value None.                   *)
(***************************************************************************)
EXTENDS Integers, Sequences, FiniteSets, TLC

VARIABLES tickets, comments, attachments, resp, sess, commitLog

vars == <<tickets, comments, attachments, resp, sess, commitLog>>

(* ------------------------------ bounds --------------------------------- *)
NumUsers == 2
MaxTickets == 2
MaxComments == 1
MaxAttachments == 1

Users == 1..NumUsers
TicketIds == 1..MaxTickets

(* ------------------------------ text ----------------------------------- *)
None == <<"None">>

\* Python truthiness of a str-or-None value: None and '' are falsy.
Truthy(x) == x # None /\ x # <<>>

\* str.lower() / SQL lower() on one character (ASCII letters of the model).
LowerChar(c) ==
    CASE c = "A" -> "a"
      [] c = "B" -> "b"
      [] c = "G" -> "g"
      [] c = "H" -> "h"
      [] c = "L" -> "l"
      [] c = "N" -> "n"
      [] c = "P" -> "p"
      [] c = "R" -> "r"
      [] c = "T" -> "t"
      [] c = "V" -> "v"
      [] OTHER -> c

Lower(s) == [i \in 1..Len(s) |-> LowerChar(s[i])]

IsSpace(c) == c = " "

RECURSIVE LStrip(_)
LStrip(s) == IF s # <<>> /\ IsSpace(Head(s)) THEN LStrip(Tail(s)) ELSE s

RECURSIVE RStrip(_)
RStrip(s) ==
    IF s # <<>> /\ IsSpace(s[Len(s)]) THEN RStrip(SubSeq(s, 1, Len(s) - 1)) ELSE s

\* str.strip()
Strip(s) == RStrip(LStrip(s))

(* ------------------------------ statuses ------------------------------- *)
Aberto == "Aberto"
Aguardando == "Aguardando"
Resolvido == "Resolvido"
Fechado == "Fechado"
Arquivado == "Arquivado"

\* request.form.get('status') when the field is absent
NoStatus == "<None>"

Statuses == {Aberto, Aguardando, Resolvido, Fechado, Arquivado}

(* ------------------------------ requests ------------------------------- *)
\* request.form of the create and edit forms.
FormA ==
    [title |-> <<"A", "b">>, description |-> <<"c">>, priority |-> <<"H">>,
     tags |-> <<"V", ",", " ", "r">>, organizer |-> None, event |-> None,
     email |-> None, telefone |-> None, client_name |-> <<"b">>,
     client_contact |-> <<"k">>, channel |-> <<"m">>, category |-> <<"n">>]

\* a required field submitted empty, the optional tags left out
FormE == [FormA EXCEPT !.title = <<>>, !.tags = None, !.category = <<"h">>]

\* a required field and the priority absent from the form
FormM == [FormA EXCEPT !.priority = None, !.category = None]

TicketForms == {FormA, FormE, FormM}

\* uploaded file names
FilePng == <<"a", ".", "P", "N", "G">>
FileExe == <<"a", ".", "e">>
FileLists == {<<>>, <<FileExe, FilePng>>}

CommentInputs == {None, <<"o", "k">>}
StatusInputs == Statuses \cup {"Urgent", ""}

\* request.form / request.files of the ticket_detail POST
UpdateForms ==
    [comment : CommentInputs, status : StatusInputs, files : {<<>>}]
        \cup [comment : {None}, status : {"", Fechado}, files : FileLists]

NoForm == [comment |-> None, status |-> NoStatus, files |-> <<>>]

\* every combination of comment, status (also absent) and uploads
AllUpdateForms ==
    [comment : CommentInputs \cup {<<>>}, status : StatusInputs \cup {NoStatus},
     files : FileLists]

(* ------------------------------ helpers -------------------------------- *)
ALLOWED_EXTENSIONS ==
    {<<"p", "n", "g">>, <<"j", "p", "g">>, <<"j", "p", "e", "g">>,
     <<"g", "i", "f">>, <<"p", "d", "f">>}

HasDot(s) == \E i \in 1..Len(s) : s[i] = "."

\* index of the last '.', for rsplit('.', 1)
LastDot(s) == CHOOSE i \in 1..Len(s) : s[i] = "." /\ \A j \in (i + 1)..Len(s) : s[j] # "."

allowed_file(filename) ==
    IF ~HasDot(filename) THEN FALSE
    ELSE Lower(SubSeq(filename, LastDot(filename) + 1, Len(filename))) \in ALLOWED_EXTENSIONS

\* werkzeug secure_filename on the model's alphabet: blanks become '_',
\* leading and trailing '.' and '_' are stripped.
RECURSIVE StripDots(_)
StripDots(s) ==
    IF s # <<>> /\ Head(s) \in {".", "_"} THEN StripDots(Tail(s))
    ELSE IF s # <<>> /\ s[Len(s)] \in {".", "_"} THEN StripDots(SubSeq(s, 1, Len(s) - 1))
    ELSE s

secure_filename(s) == StripDots([i \in 1..Len(s) |-> IF IsSpace(s[i]) THEN "_" ELSE s[i]])

\* the Attachment rows save_attachments adds for one request
RECURSIVE NewAttachments(_, _)
NewAttachments(files, ticket_id) ==
    IF files = <<>> THEN <<>>
    ELSE (IF Head(files) # <<>> /\ allowed_file(Head(files))
          THEN <<[filename |-> secure_filename(Head(files)), ticket_id |-> ticket_id]>>
          ELSE <<>>) \o NewAttachments(Tail(files), ticket_id)

save_attachments(files, ticket_id) == attachments \o NewAttachments(files, ticket_id)

(* ------------------------------ responses ------------------------------ *)
\* what the caller gets back: the view or redirect that answered, the status
\* code and the category of the flashed message
Response(view, code, flash) == [op |-> view, code |-> code, flash |-> flash]

\* what serving one request leaves behind: the committed tables and the
\* response
Outcome(tk, cm, at, r) == [tickets |-> tk, comments |-> cm, attachments |-> at, resp |-> r]

\* abort(code) is answered by the error handler of that code; an exception
\* escaping the handler is a 500.  Nothing is committed.
Abort(code) ==
    Outcome(tickets, comments, attachments,
            Response(CASE code = 403 -> "forbidden"
                       [] code = 404 -> "not_found"
                       [] OTHER -> "server_error", code, ""))

\* render_template(...) of a view; reads only
Render(view, flash) == Outcome(tickets, comments, attachments, Response(view, 200, flash))

\* db.session.commit(), flash(..., 'success'), redirect(...)
Commit(view, tk, cm, at) == Outcome(tk, cm, at, Response(view, 302, "success"))

\* Ticket.query.get_or_404
Exists(ticket_id) == ticket_id \in DOMAIN tickets

\* faulty variant: the assignee check is missing
IsOwner_Anyone(u, ticket_id) == TRUE

IsOwner(u, ticket_id) == tickets[ticket_id].assignee_id = u

(* ------------------------------ handlers ------------------------------- *)
RequiredFields(f) ==
    <<f.title, f.description, f.client_name, f.client_contact, f.channel, f.category>>

\* all([...]) over the required fields
FormValid(f) == \A i \in 1..Len(RequiredFields(f)) : Truthy(RequiredFields(f)[i])

\* Ticket(...) as INSERTed: a column given None takes its declared default
NewTicket(f, u, now) ==
    [title |-> IF f.title = None THEN <<"T">> ELSE f.title,
     priority |-> IF f.priority = None THEN <<"L", "o", "w">> ELSE f.priority,
     tags |-> f.tags, organizer |-> f.organizer, event |-> f.event,
     email |-> f.email, telefone |-> f.telefone,
     client_name |-> f.client_name, client_contact |-> f.client_contact,
     description |-> f.description, channel |-> f.channel, category |-> f.category,
     status |-> Aberto, created_at |-> now, assignee_id |-> u]

\* datetime.utcnow() at the INSERT: not before the newest ticket's, and two
\* tickets may get the same value
NowValues ==
    IF tickets = <<>> THEN {1}
    ELSE {tickets[Len(tickets)].created_at, tickets[Len(tickets)].created_at + 1}

create_ticket(u, method, f, files, now) ==
    IF method = "POST"
    THEN IF ~FormValid(f)
         THEN Render("create_ticket", "error")
         ELSE Commit("create_ticket", Append(tickets, NewTicket(f, u, now)), comments,
                     save_attachments(files, Len(tickets) + 1))
    ELSE Render("create_ticket", "")

\* the statuses the status-update request accepts
AcceptedStatuses == {Aberto, Aguardando, Resolvido, Fechado, Arquivado}

\* faulty variant: any non-empty status is stored
StatusAccepted_Truthy(new_status) == new_status # NoStatus /\ new_status # ""

\* faulty variant: the empty status passes the test
StatusAccepted_NotNone(new_status) ==
    new_status # NoStatus /\ new_status \in AcceptedStatuses \cup {""}

StatusAccepted(new_status) ==
    new_status # NoStatus /\ new_status # "" /\ new_status \in AcceptedStatuses

NewComment(content, ticket_id, u) ==
    [content |-> content, ticket_id |-> ticket_id, author_id |-> u]

ticket_detail(u, ticket_id, method, f) ==
    IF ~Exists(ticket_id) THEN Abort(404)
    ELSE IF ~IsOwner(u, ticket_id) THEN Abort(403)
    ELSE IF method = "POST"
    THEN Commit("ticket_detail",
                IF StatusAccepted(f.status)
                THEN [tickets EXCEPT ![ticket_id].status = f.status]
                ELSE tickets,
                IF Truthy(f.comment)
                THEN Append(comments, NewComment(f.comment, ticket_id, u))
                ELSE comments,
                save_attachments(f.files, ticket_id))
    ELSE Render("ticket_detail", "")

\* faulty variant: archiving also resets the creation time
archive_ticket_Touch(u, ticket_id) ==
    IF ~Exists(ticket_id) THEN Abort(404)
    ELSE IF ~IsOwner(u, ticket_id) THEN Abort(403)
    ELSE Commit("archive_ticket",
                [tickets EXCEPT ![ticket_id].status = Arquivado,
                                ![ticket_id].created_at = 0],
                comments, attachments)

archive_ticket(u, ticket_id) ==
    IF ~Exists(ticket_id) THEN Abort(404)
    ELSE IF ~IsOwner(u, ticket_id) THEN Abort(403)
    ELSE Commit("archive_ticket", [tickets EXCEPT ![ticket_id].status = Arquivado],
                comments, attachments)

\* faulty variant: reopening an archived ticket leaves it Fechado
reopen_ticket_Keep(u, ticket_id) ==
    IF ~Exists(ticket_id) THEN Abort(404)
    ELSE IF ~IsOwner(u, ticket_id) THEN Abort(403)
    ELSE Commit("reopen_ticket",
                [tickets EXCEPT ![ticket_id].status =
                    IF @ = Arquivado THEN Fechado ELSE Aberto],
                comments, attachments)

reopen_ticket(u, ticket_id) ==
    IF ~Exists(ticket_id) THEN Abort(404)
    ELSE IF ~IsOwner(u, ticket_id) THEN Abort(403)
    ELSE Commit("reopen_ticket", [tickets EXCEPT ![ticket_id].status = Aberto],
                comments, attachments)

\* the columns declared nullable=False that the edit form assigns
NotNullFields(f) ==
    <<f.title, f.priority, f.client_name, f.client_contact, f.description,
      f.channel, f.category>>

\* the UPDATE violates a NOT NULL constraint: commit raises IntegrityError
IntegrityError(f) == \E i \in 1..Len(NotNullFields(f)) : NotNullFields(f)[i] = None

\* faulty variant: the edit also resets the status
EditedTicket_ResetStatus(t, f) ==
    [t EXCEPT !.title = f.title, !.description = f.description,
              !.priority = f.priority, !.tags = f.tags, !.organizer = f.organizer,
              !.event = f.event, !.email = f.email, !.telefone = f.telefone,
              !.client_name = f.client_name, !.client_contact = f.client_contact,
              !.channel = f.channel, !.category = f.category, !.status = Aberto]

EditedTicket(t, f) ==
    [t EXCEPT !.title = f.title, !.description = f.description,
              !.priority = f.priority, !.tags = f.tags, !.organizer = f.organizer,
              !.event = f.event, !.email = f.email, !.telefone = f.telefone,
              !.client_name = f.client_name, !.client_contact = f.client_contact,
              !.channel = f.channel, !.category = f.category]

edit_ticket(u, ticket_id, method, f) ==
    IF ~Exists(ticket_id) THEN Abort(404)
    ELSE IF ~IsOwner(u, ticket_id) THEN Abort(403)
    ELSE IF method = "POST"
    THEN IF IntegrityError(f)
         THEN Abort(500)
         ELSE Commit("edit_ticket", [tickets EXCEPT ![ticket_id] = EditedTicket(@, f)],
                     comments, attachments)
    ELSE Render("edit_ticket", "")

(* ------------------------------ queries -------------------------------- *)
\* SQL LIKE: '%' matches any run of characters, '_' any single character
RECURSIVE Like(_, _)
Like(pattern, s) ==
    IF pattern = <<>> THEN s = <<>>
    ELSE IF Head(pattern) = "%"
         THEN Like(Tail(pattern), s) \/ (s # <<>> /\ Like(pattern, Tail(s)))
         ELSE /\ s # <<>>
              /\ (Head(pattern) = "_" \/ Head(pattern) = Head(s))
              /\ Like(Tail(pattern), Tail(s))

\* column.ilike(pattern): lower(column) LIKE lower(pattern); NULL never matches
ILike(column, pattern) == column # None /\ Like(Lower(pattern), Lower(column))

\* f"%{query}%"
LikeQuery(query) == <<"%">> \o query \o <<"%">>

SearchMatch(t, query) ==
    \/ ILike(t.title, LikeQuery(query))
    \/ ILike(t.client_name, LikeQuery(query))
    \/ ILike(t.description, LikeQuery(query))
    \/ ILike(t.tags, LikeQuery(query))

\* the ids selected by the dashboard's tickets_query
DashboardTickets(u, q, category, tag) ==
    LET query == Strip(q)
        category_filter == Strip(category)
        tag_filter == Strip(tag)
    IN  {i \in DOMAIN tickets :
            /\ tickets[i].assignee_id = u
            /\ tickets[i].status # Arquivado
            /\ query # <<>> => SearchMatch(tickets[i], query)
            /\ category_filter # <<>> => tickets[i].category = category_filter
            /\ tag_filter # <<>> => ILike(tickets[i].tags, LikeQuery(tag_filter))}

\* the row orders ORDER BY created_at [DESC] may return: rows with equal
\* created_at come in any order
OrderByCreatedAt(ids, desc) ==
    {o \in [1..Cardinality(ids) -> ids] :
        /\ \A i, j \in DOMAIN o : i # j => o[i] # o[j]
        /\ \A i, j \in DOMAIN o :
              i < j => IF desc
                       THEN tickets[o[i]].created_at >= tickets[o[j]].created_at
                       ELSE tickets[o[i]].created_at <= tickets[o[j]].created_at}

\* code-point order of the characters of the model
AsciiOrder ==
    <<" ", "%", ",", ".", "A", "B", "G", "H", "L", "N", "P", "T", "V", "_",
      "a", "b", "c", "e", "g", "h", "k", "m", "n", "o", "r", "w", "z">>

Ord(c) == CHOOSE i \in DOMAIN AsciiOrder : AsciiOrder[i] = c

\* Python's str <
RECURSIVE StrLess(_, _)
StrLess(a, b) ==
    IF b = <<>> THEN FALSE
    ELSE IF a = <<>> THEN TRUE
    ELSE IF Head(a) = Head(b) THEN StrLess(Tail(a), Tail(b))
    ELSE Ord(Head(a)) < Ord(Head(b))

\* sorted(S) for a set of strings
Sorted(S) ==
    CHOOSE o \in [1..Cardinality(S) -> S] :
        \A i, j \in DOMAIN o : i < j => StrLess(o[i], o[j])

\* str.split(',')
RECURSIVE Split(_, _)
Split(s, acc) ==
    IF s = <<>> THEN <<acc>>
    ELSE IF Head(s) = "," THEN <<acc>> \o Split(Tail(s), <<>>)
    ELSE Split(Tail(s), Append(acc, Head(s)))

TagsOf(t) ==
    IF Truthy(t.tags)
    THEN {Strip(Split(t.tags, <<>>)[k]) : k \in DOMAIN Split(t.tags, <<>>)}
    ELSE {}

DashboardCategories(u) ==
    Sorted({tickets[i].category : i \in {j \in DOMAIN tickets : tickets[j].assignee_id = u}})

\* faulty variant: the tags of archived tickets are left out
DashboardTags_NotArchived(u) ==
    Sorted(UNION {TagsOf(tickets[i]) :
        i \in {j \in DOMAIN tickets :
                  tickets[j].assignee_id = u /\ tickets[j].status # Arquivado}})

DashboardTags(u) ==
    Sorted(UNION {TagsOf(tickets[i]) : i \in {j \in DOMAIN tickets : tickets[j].assignee_id = u}})

\* faulty variant: a counter is missing
CountedStatuses_NoResolved == {Aberto, Aguardando, Fechado}

CountedStatuses == {Aberto, Aguardando, Resolvido, Fechado}

\* the statuses dict of the dashboard
StatusCounters(u) ==
    [st \in CountedStatuses |->
        Cardinality({i \in DOMAIN tickets :
            /\ tickets[i].assignee_id = u
            /\ tickets[i].status # Arquivado
            /\ tickets[i].status = st})]

\* the template context of the dashboard; tickets is the set of lists the
\* query may return
DashboardView(u, q, category, tag) ==
    [tickets |-> OrderByCreatedAt(DashboardTickets(u, q, category, tag), TRUE),
     categories |-> DashboardCategories(u),
     all_tags |-> DashboardTags(u),
     statuses |-> StatusCounters(u)]

dashboard(u, q, category, tag) == Render("dashboard", "")

ArchivedView(u) ==
    OrderByCreatedAt({i \in DOMAIN tickets :
        tickets[i].assignee_id = u /\ tickets[i].status = Arquivado}, TRUE)

archived_tickets(u) == Render("archived_tickets", "")

(* ------------------------------ exports -------------------------------- *)
\* faulty variant: newest first
ExportTickets_Desc(u) ==
    OrderByCreatedAt({i \in DOMAIN tickets :
        tickets[i].assignee_id = u /\ tickets[i].status = Aberto}, TRUE)

\* the lists Ticket.query.filter_by(assignee_id, status='Aberto')
\*   .order_by(Ticket.created_at).all() may return
ExportTickets(u) ==
    OrderByCreatedAt({i \in DOMAIN tickets :
        tickets[i].assignee_id = u /\ tickets[i].status = Aberto}, FALSE)

\* datetime.isoformat()
IsoFormat(created_at) == [isoformat |-> created_at]

CsvHeader ==
    <<"ID", "Título", "Cliente", "Contato", "Canal", "Categoria", "Descrição",
      "Status", "Criado em">>

CsvRow(i) ==
    <<i, tickets[i].title, tickets[i].client_name, tickets[i].client_contact,
      tickets[i].channel, tickets[i].category, tickets[i].description,
      tickets[i].status, IsoFormat(tickets[i].created_at)>>

\* the records written for one result list
CsvRecords(o) == <<CsvHeader>> \o [k \in DOMAIN o |-> CsvRow(o[k])]

\* the CSV bodies export_csv may send
CsvExports(u) == {CsvRecords(o) : o \in ExportTickets(u)}

export_csv(u) == Render("export_csv", "")

MdHeading == <<"# Tickets Abertos">>

MdTicket(i) ==
    << <<"\n## Ticket", i, tickets[i].title>>,
       <<"- **Cliente:**", tickets[i].client_name>>,
       <<"- **Contato:**", tickets[i].client_contact>>,
       <<"- **Canal:**", tickets[i].channel>>,
       <<"- **Categoria:**", tickets[i].category>>,
       <<"- **Descrição:**", tickets[i].description>>,
       <<"- **Criado em:**", IsoFormat(tickets[i].created_at)>>,
       <<"- **Status:**", tickets[i].status>> >>

\* md_lines for one result list
RECURSIVE MdLines(_)
MdLines(o) ==
    IF o = <<>> THEN <<MdHeading>>
    ELSE MdLines(SubSeq(o, 1, Len(o) - 1)) \o MdTicket(o[Len(o)])

\* the Markdown bodies export_markdown may send
MdExports(u) == {MdLines(o) : o \in ExportTickets(u)}

export_markdown(u) == Render("export_markdown", "")

\* the dashboard requests of the model: (q, category, tag)
Queries == {<<>>, <<"a">>, <<"B">>, <<"_">>, <<" ">>, <<" ", "r">>, <<"z">>}
DashboardArgs ==
    {<<q, <<>>, <<>>>> : q \in Queries}
        \cup {<<<<>>, <<"n">>, <<>>>>, <<<<>>, <<>>, <<"v">>>>, <<<<"b">>, <<"n">>, <<"R">>>>}

Init ==
    /\ tickets = <<>>
    /\ comments = <<>>
    /\ attachments = <<>>
    /\ resp = Response("none", 0, "")
    /\ sess = <<>>
    /\ commitLog = <<>>

\* one request is served from start to end: its outcome becomes the state
Serve(o) ==
    /\ Len(o.tickets) <= MaxTickets
    /\ Len(o.comments) <= MaxComments
    /\ Len(o.attachments) <= MaxAttachments
    /\ tickets' = o.tickets
    /\ comments' = o.comments
    /\ attachments' = o.attachments
    /\ resp' = o.resp
    /\ UNCHANGED <<sess, commitLog>>

Next ==
    \/ \E u \in Users : Serve(create_ticket(u, "GET", FormA, <<>>, 1))
    \/ \E u \in Users, f \in TicketForms, fl \in FileLists, now \in NowValues :
          Serve(create_ticket(u, "POST", f, fl, now))
    \/ \E u \in Users, t \in TicketIds : Serve(ticket_detail(u, t, "GET", NoForm))
    \/ \E u \in Users, t \in TicketIds, f \in UpdateForms :
          Serve(ticket_detail(u, t, "POST", f))
    \/ \E u \in Users, t \in TicketIds : Serve(archive_ticket(u, t))
    \/ \E u \in Users, t \in TicketIds : Serve(reopen_ticket(u, t))
    \/ \E u \in Users, t \in TicketIds : Serve(edit_ticket(u, t, "GET", FormA))
    \/ \E u \in Users, t \in TicketIds, f \in TicketForms :
          Serve(edit_ticket(u, t, "POST", f))
    \/ \E u \in Users, a \in DashboardArgs : Serve(dashboard(u, a[1], a[2], a[3]))
    \/ \E u \in Users : Serve(archived_tickets(u))
    \/ \E u \in Users : Serve(export_csv(u))
    \/ \E u \in Users : Serve(export_markdown(u))

Spec == Init /\ [][Next]_vars

(* ------------------------- concurrent requests ------------------------- *)
(* Two status-update requests (ticket_detail POST) in flight at once, each  *)
(* in its own database session.  A request loads the ticket, assigns to the *)
(* loaded object, and commits: the flush sends INSERTs for the new rows and *)
(* an UPDATE of the columns whose value differs from the value loaded.      *)
Sessions == {1, 2}

Idle == [pc |-> "idle", user |-> 0, tid |-> 0, form |-> NoForm, loaded |-> "", status |-> ""]

\* the requests of the concurrent runs: no uploads
ConcForms == {f \in UpdateForms : f.files = <<>>}

\* comments that requests in flight will insert when they commit
PendingComments ==
    Cardinality({s \in Sessions :
        sess[s].pc \in {"loaded", "assigned"} /\ Truthy(sess[s].form.comment)})

\* Ticket.query.get_or_404(ticket_id) and the assignee check
TdLoad(s, u, ticket_id, f) ==
    /\ sess[s].pc = "idle"
    /\ Truthy(f.comment) => Len(comments) + PendingComments < MaxComments
    /\ LET o == ticket_detail(u, ticket_id, "GET", NoForm) IN
       IF o.resp.code # 200
       THEN /\ sess' = [sess EXCEPT ![s] = [Idle EXCEPT !.pc = "aborted", !.user = u,
                                                   !.tid = ticket_id, !.form = f]]
            /\ resp' = o.resp
       ELSE /\ sess' = [sess EXCEPT ![s] =
                           [pc |-> "loaded", user |-> u, tid |-> ticket_id, form |-> f,
                            loaded |-> tickets[ticket_id].status,
                            status |-> tickets[ticket_id].status]]
            /\ UNCHANGED resp
    /\ UNCHANGED <<tickets, comments, attachments, commitLog>>

\* ticket.status = new_status on the object loaded by this session
TdAssign(s) ==
    /\ sess[s].pc = "loaded"
    /\ sess' = [sess EXCEPT ![s].pc = "assigned",
                            ![s].status = IF StatusAccepted(sess[s].form.status)
                                          THEN sess[s].form.status ELSE @]
    /\ UNCHANGED <<tickets, comments, attachments, resp, commitLog>>

\* faulty variant: the assignment is never flushed
Dirty_Never(s) == FALSE

\* the flush writes the status column only when it differs from the loaded one
Dirty(s) == sess[s].status # sess[s].loaded

\* db.session.commit()
TdCommit(s) ==
    /\ sess[s].pc = "assigned"
    /\ tickets' = IF Dirty(s)
                  THEN [tickets EXCEPT ![sess[s].tid].status = sess[s].status]
                  ELSE tickets
    /\ comments' = IF Truthy(sess[s].form.comment)
                   THEN Append(comments,
                               NewComment(sess[s].form.comment, sess[s].tid, sess[s].user))
                   ELSE comments
    /\ attachments' = save_attachments(sess[s].form.files, sess[s].tid)
    /\ resp' = Response("ticket_detail", 302, "success")
    /\ sess' = [sess EXCEPT ![s].pc = "done"]
    /\ commitLog' = Append(commitLog, [session |-> s, wrote |-> Dirty(s)])

\* one ticket of user 1, in any status
InitConc ==
    /\ \E st \in Statuses : tickets = <<[NewTicket(FormA, 1, 1) EXCEPT !.status = st]>>
    /\ comments = <<>>
    /\ attachments = <<>>
    /\ resp = Response("none", 0, "")
    /\ sess = [s \in Sessions |-> Idle]
    /\ commitLog = <<>>

NextConc ==
    \/ \E s \in Sessions, u \in Users, t \in TicketIds, f \in ConcForms : TdLoad(s, u, t, f)
    \/ \E s \in Sessions : TdAssign(s)
    \/ \E s \in Sessions : TdCommit(s)

SpecConc == InitConc /\ [][NextConc]_vars

(* ------------------------------ properties ----------------------------- *)
OwnedBy(u) == {i \in DOMAIN tickets : tickets[i].assignee_id = u}

\* C1: every stored ticket's status is one of Aberto, Aguardando, Resolvido,
\* Fechado, Arquivado, whatever requests were made.
C1_StatusInFixedSet == \A i \in DOMAIN tickets : tickets[i].status \in Statuses

C1_Witness ==
    /\ resp.op = "ticket_detail" /\ resp.code = 302
    /\ \E i, j \in DOMAIN tickets :
          tickets[i].status = Arquivado /\ tickets[j].status = Resolvido

\* C2: a status update, archive or reopen requested by a user who is not the
\* ticket's assignee is answered 403 and changes no ticket, comment or
\* attachment.
C2_ForbiddenLeavesTicket ==
    \A u \in Users, t \in DOMAIN tickets :
        tickets[t].assignee_id # u
          => \A o \in {ticket_detail(u, t, "POST", f) : f \in AllUpdateForms}
                       \cup {archive_ticket(u, t), reopen_ticket(u, t)} :
                /\ o.resp.code = 403
                /\ o.tickets = tickets
                /\ o.comments = comments
                /\ o.attachments = attachments

C2_Witness ==
    /\ resp.code = 403
    /\ \E t \in DOMAIN tickets : tickets[t].status = Aguardando
    /\ comments # <<>>

\* C3: archive_ticket by the owner leaves the ticket Arquivado whatever its
\* status was and keeps no trace of that status, and reopen_ticket by the
\* owner on an Arquivado ticket leaves it Aberto: archive then reopen yields
\* Aberto from every status.
C3_ArchiveReopenYieldsOpen ==
    \A t \in DOMAIN tickets :
        LET u == tickets[t].assignee_id IN
        /\ archive_ticket(u, t).resp.code = 302
        /\ archive_ticket(u, t).tickets = [tickets EXCEPT ![t].status = Arquivado]
        /\ tickets[t].status = Arquivado
             => /\ reopen_ticket(u, t).resp.code = 302
                /\ reopen_ticket(u, t).tickets = [tickets EXCEPT ![t].status = Aberto]

C3_Witness ==
    /\ resp.op = "reopen_ticket" /\ resp.code = 302
    /\ \E t \in DOMAIN tickets : tickets[t].status = Aberto /\ tickets[t].title = <<>>

\* C4: a status update by the owner whose status is not one of the five
\* leaves every ticket as it was, is answered as a success, and still adds the
\* comment sent with it.
C4_UnknownStatusIgnored ==
    \A t \in DOMAIN tickets, f \in AllUpdateForms :
        LET u == tickets[t].assignee_id
            o == ticket_detail(u, t, "POST", f)
        IN  f.status \notin Statuses
              => /\ o.tickets = tickets
                 /\ o.resp = Response("ticket_detail", 302, "success")
                 /\ o.comments = IF f.comment \in {None, <<>>} THEN comments
                                 ELSE Append(comments, NewComment(f.comment, t, u))
                 /\ o.attachments = save_attachments(f.files, t)

C4_Witness ==
    /\ resp = Response("ticket_detail", 302, "success")
    /\ Len(comments) = 1
    /\ tickets[comments[1].ticket_id].status = Resolvido

\* C5: for every caller each dashboard counter is the number of the caller's
\* tickets in that status, and the four counters add up to the number of the
\* caller's tickets that are not Arquivado.
C5_CountersSum ==
    \A u \in Users :
        LET c == DashboardView(u, <<>>, <<>>, <<>>).statuses IN
        /\ DOMAIN c = {Aberto, Aguardando, Resolvido, Fechado}
        /\ \A st \in DOMAIN c :
              c[st] = Cardinality({i \in OwnedBy(u) : tickets[i].status = st})
        /\ c[Aberto] + c[Aguardando] + c[Resolvido] + c[Fechado]
              = Cardinality({i \in OwnedBy(u) : tickets[i].status # Arquivado})

C5_Witness ==
    /\ resp.op = "dashboard"
    /\ \E u \in Users :
          /\ StatusCounters(u)[Resolvido] = 1
          /\ \E i \in OwnedBy(u) : tickets[i].status = Arquivado

\* case-insensitive occurrence of s in a field
Occurs(s, field) ==
    /\ field # None
    /\ \E k \in 0..(Len(field) - Len(s)) :
          Lower(SubSeq(field, k + 1, k + Len(s))) = Lower(s)

\* C6: for a non-empty query S without category or tag filter, a ticket is
\* listed iff it is the caller's, is not Arquivado, and S occurs
\* case-insensitively in its title, client_name, description or tags.
C6_SearchIsSubstring ==
    \A u \in Users, S \in Queries \ {<<>>} :
        \A i \in DOMAIN tickets :
            (\E o \in DashboardView(u, S, <<>>, <<>>).tickets : \E k \in DOMAIN o : o[k] = i)
              <=> /\ tickets[i].assignee_id = u
                  /\ tickets[i].status # Arquivado
                  /\ \/ Occurs(S, tickets[i].title)
                     \/ Occurs(S, tickets[i].client_name)
                     \/ Occurs(S, tickets[i].description)
                     \/ Occurs(S, tickets[i].tags)

\* C7: every CSV export of a caller is the header followed by one record per
\* Aberto ticket of the caller, each once, in ascending created_at order; with
\* no such ticket the CSV is the header alone and the Markdown the heading.
C7_ExportOpenAscending ==
    \A u \in Users :
        LET open == {i \in OwnedBy(u) : tickets[i].status = Aberto} IN
        /\ CsvExports(u) # {}
        /\ \A body \in CsvExports(u) :
              /\ Len(body) = Cardinality(open) + 1
              /\ body[1] = CsvHeader
              /\ {body[k][1] : k \in 2..Len(body)} = open
              /\ \A k \in 2..Len(body) :
                    /\ body[k][8] = Aberto
                    /\ body[k][9] = IsoFormat(tickets[body[k][1]].created_at)
              /\ \A j, k \in 2..Len(body) :
                    j < k => /\ body[j][1] # body[k][1]
                             /\ body[j][9].isoformat <= body[k][9].isoformat
        /\ \A md \in MdExports(u) : Len(md) = 1 + 8 * Cardinality(open)
        /\ open = {} => MdExports(u) = {<<MdHeading>>}

C7_Witness ==
    /\ resp.op = "export_csv"
    /\ \E u \in Users :
          /\ \E i, j \in OwnedBy(u) :
                /\ tickets[i].status = Aberto /\ tickets[j].status = Aberto
                /\ tickets[i].created_at < tickets[j].created_at
          /\ \A body \in CsvExports(u) : Len(body) = 3

\* C8: a create or edit request with a required field missing or empty is a
\* validation failure and stores nothing, so every stored ticket has a
\* non-empty title, description, client_name, client_contact, channel and
\* category.
C8_RequiredFieldsNonEmpty ==
    \A i \in DOMAIN tickets :
        \A x \in {tickets[i].title, tickets[i].description, tickets[i].client_name,
                  tickets[i].client_contact, tickets[i].channel, tickets[i].category} :
            x # None /\ x # <<>>

\* C9 as claimed: a ticket becomes Arquivado only by archive_ticket and stops
\* being Arquivado only by reopen_ticket, which leaves it Aberto.
C9_OnlyDedicatedActions ==
    [][\A i \in DOMAIN tickets :
          /\ (tickets[i].status # Arquivado /\ tickets'[i].status = Arquivado)
                => resp'.op = "archive_ticket"
          /\ (tickets[i].status = Arquivado /\ tickets'[i].status # Arquivado)
                => (resp'.op = "reopen_ticket" /\ tickets'[i].status = Aberto)]_vars

\* C9 amended: a ticket becomes Arquivado by archive_ticket or by a status
\* update that submits Arquivado, and stops being Arquivado by reopen_ticket
\* (to Aberto) or by a status update, which leaves it in the submitted status.
C9_ArchiveAlsoByStatusUpdate ==
    [][\A i \in DOMAIN tickets :
          LET u == tickets[i].assignee_id
              byUpdate == \E f \in UpdateForms :
                              /\ f.status = tickets'[i].status
                              /\ Serve(ticket_detail(u, i, "POST", f))
          IN
          /\ (tickets[i].status # Arquivado /\ tickets'[i].status = Arquivado)
                => (Serve(archive_ticket(u, i)) \/ byUpdate)
          /\ (tickets[i].status = Arquivado /\ tickets'[i].status # Arquivado)
                => ((Serve(reopen_ticket(u, i)) /\ tickets'[i].status = Aberto) \/ byUpdate)]_vars

C9_Witness ==
    /\ resp.op = "ticket_detail" /\ resp.code = 302
    /\ \E i \in DOMAIN tickets : tickets[i].status = Arquivado
    /\ \A i \in DOMAIN tickets : tickets[i].status # Aberto

\* both requests are the owner's, on ticket 1, with a status of the fixed set,
\* and both have committed
BothCommitted ==
    /\ sess # <<>>
    /\ \A s \in Sessions :
          /\ sess[s].pc = "done"
          /\ sess[s].tid = 1
          /\ sess[s].form.status \in Statuses

\* C10 as claimed: after two concurrent status updates of one ticket by its
\* owner, the ticket's status is the one requested by the request that
\* committed last.
C10_LastCommitWins ==
    BothCommitted
      => tickets[1].status = sess[commitLog[Len(commitLog)].session].form.status

Writers == {k \in DOMAIN commitLog : commitLog[k].wrote}

\* C10 amended: both requests complete; the ticket's status is the one
\* requested by the last request whose commit wrote the status (a request that
\* asks for the status it loaded writes nothing), and when neither wrote it is
\* the status both asked for; it is one of the two requested statuses, and the
\* status is in the fixed set in every intermediate state.
C10_LastWriteWins ==
    /\ \A i \in DOMAIN tickets : tickets[i].status \in Statuses
    /\ BothCommitted
         => /\ resp = Response("ticket_detail", 302, "success")
            /\ Len(commitLog) = 2
            /\ tickets[1].status \in {sess[s].form.status : s \in Sessions}
            /\ IF Writers # {}
               THEN LET k == CHOOSE w \in Writers : \A x \in Writers : x <= w
                    IN  tickets[1].status = sess[commitLog[k].session].form.status
               ELSE \A s \in Sessions : tickets[1].status = sess[s].form.status

C10_Witness ==
    /\ BothCommitted
    /\ Len(commitLog) = 2
    /\ commitLog[1].wrote /\ ~commitLog[2].wrote
    /\ sess[1].form.status # sess[2].form.status

\* the fields of a ticket other than its status
SameButStatus(a, b) == a = [b EXCEPT !.status = a.status]

\* C11: a status update through ticket_detail, archive_ticket or reopen_ticket,
\* by any user and with any form, removes no ticket, leaves every other ticket
\* as it was, and changes nothing but the status of the ticket it is about:
\* its id, created_at, assignee and descriptive fields stay.
C11_OnlyStatusChanges ==
    \A u \in Users, t \in TicketIds :
        \A o \in {ticket_detail(u, t, "POST", f) : f \in AllUpdateForms}
                 \cup {archive_ticket(u, t), reopen_ticket(u, t)} :
            /\ DOMAIN o.tickets = DOMAIN tickets
            /\ \A i \in DOMAIN tickets :
                  IF i = t THEN SameButStatus(o.tickets[i], tickets[i])
                  ELSE o.tickets[i] = tickets[i]

C11_Witness ==
    /\ resp.op = "archive_ticket" /\ resp.code = 302
    /\ \E i, j \in DOMAIN tickets :
          /\ tickets[i].status = Arquivado
          /\ tickets[i].title = <<>>
          /\ tickets[i].created_at = 1
          /\ tickets[j].assignee_id # tickets[i].assignee_id
          /\ tickets[j].status = Resolvido
          /\ tickets[j].created_at = 2

\* the maximal comma-free runs of s, the empty ones included
Segments(s) ==
    {SubSeq(s, a, b) : <<a, b>> \in
        {p \in (1..(Len(s) + 1)) \X (0..Len(s)) :
            /\ p[1] <= p[2] + 1
            /\ \A k \in p[1]..p[2] : s[k] # ","
            /\ p[1] = 1 \/ s[p[1] - 1] = ","
            /\ p[2] = Len(s) \/ s[p[2] + 1] = ","}}

\* x without its leading and trailing blanks
TrimOf(x) ==
    {SubSeq(x, l, r) : <<l, r>> \in
        {p \in (1..(Len(x) + 1)) \X (0..Len(x)) :
            /\ p[1] <= p[2] + 1
            /\ \A k \in 1..(p[1] - 1) : x[k] = " "
            /\ \A k \in (p[2] + 1)..Len(x) : x[k] = " "
            /\ p[1] <= p[2] => (x[p[1]] # " " /\ x[p[2]] # " ")}}

\* the elements of a list
Range(l) == {l[k] : k \in DOMAIN l}

\* strictly ascending in code-point order: sorted, and no value twice
Ascending(l) == \A j, k \in DOMAIN l : j < k => StrLess(l[j], l[k])

\* C12: whatever the filters, the dashboard's category list holds exactly the
\* categories of the caller's tickets and its tag list exactly the trimmed
\* comma-separated pieces of the caller's tags strings, Arquivado tickets
\* included, both sorted without duplicates; an Arquivado ticket is in no
\* ticket list and in no counter, and every listed value comes from a ticket
\* of the caller.
C12_ListsFromAllOwned ==
    \A u \in Users, a \in DashboardArgs :
        LET v == DashboardView(u, a[1], a[2], a[3])
            tagged == {i \in OwnedBy(u) : tickets[i].tags # None /\ tickets[i].tags # <<>>}
        IN
        /\ Range(v.categories) = {tickets[i].category : i \in OwnedBy(u)}
        /\ Range(v.all_tags)
              = UNION {UNION {TrimOf(x) : x \in Segments(tickets[i].tags)} : i \in tagged}
        /\ Ascending(v.categories) /\ Ascending(v.all_tags)
        /\ \A c \in Range(v.categories) : \E i \in OwnedBy(u) : tickets[i].category = c
        /\ \A g \in Range(v.all_tags) :
              \E i \in tagged : g \in UNION {TrimOf(x) : x \in Segments(tickets[i].tags)}
        /\ \A i \in OwnedBy(u) :
              tickets[i].status = Arquivado
                => /\ \A o \in v.tickets : i \notin Range(o)
                   /\ \A st \in DOMAIN v.statuses :
                         v.statuses[st]
                           <= Cardinality({j \in OwnedBy(u) \ {i} : tickets[j].status = st})

C12_Witness ==
    /\ resp.op = "dashboard"
    /\ \E u \in Users :
          /\ \E i \in OwnedBy(u), j \in DOMAIN tickets \ OwnedBy(u) :
                /\ tickets[i].status = Arquivado
                /\ tickets[i].tags = <<"V", ",", " ", "r">>
                /\ tickets[i].category = <<"n">>
                /\ tickets[j].category = <<"h">>
                /\ tickets[j].status # Arquivado
          /\ DashboardView(u, <<>>, <<>>, <<>>).tickets = {<<>>}
          /\ DashboardView(u, <<>>, <<>>, <<>>).categories = << <<"n">> >>
          /\ DashboardView(u, <<>>, <<>>, <<>>).all_tags = << <<"V">>, <<"r">> >>

====
